---- MODULE Spec2Model ----
(***************************************************************************)
(* A model of the blog post generation workflow of ai-blog-generator:      *)
(* BlogPostGenerator (src/src/ai_blog_generator/generator.py).             *)
(*                                                                         *)
(* A text is a sequence of characters, each character a one-token string.  *)
(* The external capabilities (query planner model, news feed endpoint,     *)
(* article scraper agent, writer agent) are the environment: every outcome *)
(* they can produce is a nondeterministic choice of the step calling them. *)
(*                                                                         *)
(* The state machine is one caller invoking one public method of a         *)
(* constructed BlogPostGenerator: entry names the method, pc the position  *)
(* inside it.                                                              *)
(***************************************************************************)
EXTENDS Integers, Sequences, FiniteSets, TLC

\* ------------------------------------------------------------------ bounds

\* Longest text handed to _sanitize_user_text when it is called directly.
MaxLen == 3
\* Longest raw topic handed to run.
MaxTopicLen == 2
\* Largest num_attempts handed to get_search_results when it is called directly.
MaxAttempts == 3
\* Most items of a feed handed to the feed parser when it is called directly.
MaxFeedLen == 3
\* Most items of a feed the endpoint returns inside run and get_search_results.
MaxRunFeedLen == 2
\* Most chunks a writer stream carries.
MaxChunks == 2
MaxDocChunks == 2

\* ------------------------------------------------------- program constants

\* run: self._sanitize_user_text(raw_topic, max_length=600)
TopicMaxLength == 600
\* _build_search_query: self._sanitize_user_text(str(response.content), max_length=200)
QueryMaxLength == 200
\* _should_use_query_planner: len(raw_topic) > 120
PlannerLengthThreshold == 120
\* get_search_results(self, topic, num_attempts=3)
DefaultNumAttempts == 3
\* _search_google_news_rss(self, topic, max_results=10)
DefaultMaxResults == 10
\* time.sleep(min(2 * (attempt + 1), 5))
BackoffFactor == 2
BackoffCap == 5

\* ------------------------------------------------------------- characters

SP == " "
NL == "\n"
DOT == "."
QUOTE == "\""
\* one character of the class [\x00-\x08\x0b\x0c\x0e-\x1f\x7f]
CTRL == "\\x01"

\* The absent value (Python None) where a text is expected.
None == <<"None">>

\* re: [\x00-\x08\x0b\x0c\x0e-\x1f\x7f]
ControlChars == {CTRL}
\* re: \s, and what str.strip() removes
Whitespace == {SP, NL}

Min(a, b) == IF a <= b THEN a ELSE b

\* text or ""
OrEmpty(text) == IF text = None THEN <<>> ELSE text

\* Python truthiness of an optional text: None and "" are falsy.
Truthy(text) == text # None /\ text # <<>>

\* ---------------------------------------------------------- text sanitizer

\* re.sub(r"[\x00-\x08\x0b\x0c\x0e-\x1f\x7f]", "", text)
RemoveControl(s) == SelectSeq(s, LAMBDA c : c \notin ControlChars)

\* str.lstrip(): drop the leading whitespace
LStrip(s) ==
  IF \A i \in 1..Len(s) : s[i] \in Whitespace THEN <<>>
  ELSE LET first == CHOOSE i \in 1..Len(s) :
                      /\ s[i] \notin Whitespace
                      /\ \A j \in 1..(i - 1) : s[j] \in Whitespace
       IN  SubSeq(s, first, Len(s))

\* str.rstrip(): drop the trailing whitespace
RStrip(s) ==
  IF \A i \in 1..Len(s) : s[i] \in Whitespace THEN <<>>
  ELSE LET last == CHOOSE i \in 1..Len(s) :
                     /\ s[i] \notin Whitespace
                     /\ \A j \in (i + 1)..Len(s) : s[j] \in Whitespace
       IN  SubSeq(s, 1, last)

\* str.strip()
Strip(s) == RStrip(LStrip(s))

\* re.sub(r"\s+", " ", cleaned): every maximal run of whitespace becomes one
\* space. Of a run only its first character is kept, as a space.
CollapseWhitespace(s) ==
  LET kept == SelectSeq([i \in 1..Len(s) |-> i],
                        LAMBDA i : s[i] \notin Whitespace \/ i = 1 \/ s[i - 1] \notin Whitespace)
  IN  [k \in 1..Len(kept) |-> IF s[kept[k]] \in Whitespace THEN SP ELSE s[kept[k]]]

\* A slip of the slice: one character too many is kept.
TruncateInclusive(s, n) == SubSeq(s, 1, Min(n + 1, Len(s)))

\* cleaned[:max_length], max_length >= 0
Truncate(s, n) == SubSeq(s, 1, Min(n, Len(s)))

\* A slip the sanitizer could make: the control characters are left in.
SanitizeKeepControl(text, max_length) ==
  Truncate(Strip(CollapseWhitespace(OrEmpty(text))), max_length)

\* BlogPostGenerator._sanitize_user_text
SanitizeUserText(text, max_length) ==
  Truncate(Strip(CollapseWhitespace(RemoveControl(OrEmpty(text)))), max_length)

\* ----------------------------------------------------------- query planner

\* raw_topic.count(c)
CountChar(s, c) == Cardinality({i \in 1..Len(s) : s[i] = c})

\* c in raw_topic
Contains(s, c) == \E i \in 1..Len(s) : s[i] = c

\* A slip of the comparison: a topic of exactly the threshold's length counts
\* as long.
ShouldUseQueryPlannerAtThreshold(raw_topic) ==
  \/ Len(raw_topic) >= PlannerLengthThreshold
  \/ Contains(raw_topic, NL)
  \/ CountChar(raw_topic, DOT) > 1

\* BlogPostGenerator._should_use_query_planner
ShouldUseQueryPlanner(raw_topic) ==
  \/ Len(raw_topic) > PlannerLengthThreshold
  \/ Contains(raw_topic, NL)
  \/ CountChar(raw_topic, DOT) > 1

RECURSIVE LStripChars(_, _)
LStripChars(s, chars) ==
  IF s = <<>> THEN <<>>
  ELSE IF Head(s) \in chars THEN LStripChars(Tail(s), chars)
  ELSE s

RECURSIVE RStripChars(_, _)
RStripChars(s, chars) ==
  IF s = <<>> THEN <<>>
  ELSE IF s[Len(s)] \in chars THEN RStripChars(SubSeq(s, 1, Len(s) - 1), chars)
  ELSE s

\* str.strip(chars)
StripChars(s, chars) == RStripChars(LStripChars(s, chars), chars)

\* query = self._sanitize_user_text(str(response.content), max_length=200)
\* query = query.strip().strip('"')
ProcessPlannerContent(content) ==
  StripChars(Strip(SanitizeUserText(content, QueryMaxLength)), {QUOTE})

\* What the query planner's run can do: raise, return no response, or return a
\* response with some content (None, empty or a text).
PlannerContents ==
  {None, <<>>, <<QUOTE, QUOTE>>, <<QUOTE, SP, QUOTE>>, <<QUOTE, "q", QUOTE>>, <<"q", CTRL>>}

PlannerOutcomes ==
  {[kind |-> "raise", content |-> None], [kind |-> "none", content |-> None]}
    \cup {[kind |-> "content", content |-> c] : c \in PlannerContents}

\* A slip of the fallback: the processed model output is returned even when empty.
PlannedQueryNoFallback(cleaned_topic, outcome) ==
  IF outcome.kind = "content" /\ Truthy(outcome.content)
  THEN ProcessPlannerContent(outcome.content)
  ELSE cleaned_topic

\* BlogPostGenerator._build_search_query, lines 45-61: the value returned once
\* the planner has been called with the given outcome.
PlannedQuery(cleaned_topic, outcome) ==
  IF outcome.kind = "content" /\ Truthy(outcome.content)
  THEN LET query == ProcessPlannerContent(outcome.content)
       IN  IF query # <<>> THEN query ELSE cleaned_topic
  ELSE cleaned_topic

\* --------------------------------------------------------- search provider

\* html.unescape on one character: an entity becomes the character it names.
UnescapeChar(c) == IF c = "&amp;" THEN "&" ELSE c

\* html.unescape
Unescape(s) == [i \in 1..Len(s) |-> UnescapeChar(s[i])]

\* A feed item: the text of its title element (None when the item has none), how
\* the title is written in the raw feed (a CDATA section, plain text, or the
\* literal text <!\C\]> which is no XML), and the text of its link element
\* (None when it has none). The items enumerated carry no description, so
\* every summary is None.
Item(title, markup, link) == [title |-> title, markup |-> markup, link |-> link]

FeedItems ==
  { Item(<<"T", "1">>, "cdata", <<"a">>),
    Item(<<"T", "2">>, "cdata", <<"b">>),
    Item(<<"T", "3">>, "plain", <<SP, "a">>),
    Item(None, "cdata", <<"a">>),
    Item(<<"&amp;">>, "cdata", <<"c">>),
    Item(<<SP>>, "plain", <<SP>>),
    Item(<<"T", "4">>, "cdata", None) }

\* An item whose title element matches the fallback's title pattern.
OddItem == Item(<<"T", "5">>, "odd", <<"b">>)

NewsArticle(title, url, summary) == [title |-> title, url |-> url, summary |-> summary]

Urls(articles) == {articles[i].url : i \in 1..Len(articles)}

RECURSIVE StructuredLoop(_, _, _)
\* _search_google_news_rss, lines 80-95: the loop over root.findall(".//item").
\* seen_urls is the set of urls of the articles collected so far.
StructuredLoop(items, articles, max_results) ==
  IF items = <<>> THEN articles
  ELSE LET item == Head(items) IN
    IF ~Truthy(item.title) \/ ~Truthy(item.link)
    THEN StructuredLoop(Tail(items), articles, max_results)
    ELSE LET title == Strip(Unescape(item.title))
             url == Strip(item.link)
         IN  IF url \in Urls(articles)
             THEN StructuredLoop(Tail(items), articles, max_results)
             ELSE LET appended == Append(articles, NewsArticle(title, url, None))
                  IN  IF Len(appended) >= max_results THEN appended
                      ELSE StructuredLoop(Tail(items), appended, max_results)

\* re.search(r"<title><!\\[CDATA\\[(.*?)\\]\\]></title>", item): in the raw
\* string the doubled backslashes make the pattern <title><!\ + one character of
\* the class [CDATA\\[(.*?)\\] + \]></title>, with no group in it. It matches
\* none of the ways a feed writes a title, only the literal odd text.
TitleMatch(item) == item.title # None /\ item.markup = "odd"

RECURSIVE FallbackLoop(_, _, _)
\* _search_google_news_rss, lines 97-111: the loop over the <item> texts.
\* title_match.group(1) raises IndexError (the pattern has no group 1), which
\* leaves the function: the result is then [raised |-> TRUE].
FallbackLoop(items, articles, max_results) ==
  IF items = <<>> THEN [raised |-> FALSE, articles |-> articles]
  ELSE LET item == Head(items) IN
    IF TitleMatch(item) THEN [raised |-> TRUE, articles |-> <<>>]
    ELSE LET title == None
             url == IF item.link # None THEN Strip(item.link) ELSE None
         IN  IF ~Truthy(url) \/ ~Truthy(title) \/ url \in Urls(articles)
             THEN FallbackLoop(Tail(items), articles, max_results)
             ELSE LET appended == Append(articles, NewsArticle(title, url, None))
                  IN  IF Len(appended) >= max_results
                      THEN [raised |-> FALSE, articles |-> appended]
                      ELSE FallbackLoop(Tail(items), appended, max_results)

\* _search_google_news_rss, lines 75-112, on the feed text the endpoint returned:
\* ElementTree.fromstring parses a well-formed feed, and raises ParseError on
\* any other, which sends the function to the pattern-based extraction.
ParseFeed(feed, max_results) ==
  IF feed.wellformed
  THEN [raised |-> FALSE,
        articles |-> Truncate(StructuredLoop(feed.items, <<>>, max_results), max_results)]
  ELSE LET r == FallbackLoop(feed.items, <<>>, max_results)
       IN  [raised |-> r.raised, articles |-> Truncate(r.articles, max_results)]

\* What one fetch of the endpoint can do inside get_search_results: urlopen or
\* decode raises, or a feed arrives.
RunFeedItems ==
  { Item(<<"T", "1">>, "cdata", <<"a">>),
    Item(<<"T", "2">>, "plain", <<SP, "b">>),
    Item(None, "cdata", <<"a">>) }

Texts(chars, n) == UNION {[1..k -> chars] : k \in 0..n}

WellFormed(items) == \A i \in 1..Len(items) : items[i].markup # "odd"

FeedsOf(itemSet, n) ==
  {[wellformed |-> w, items |-> items] :
     w \in BOOLEAN, items \in Texts(itemSet, n)} \ 
  {[wellformed |-> TRUE, items |-> items] :
     items \in {x \in Texts(itemSet, n) : ~WellFormed(x)}}

\* The feed value of a call whose fetch raised: no feed was read.
NoFeed == [wellformed |-> FALSE, items |-> <<>>, fetched |-> FALSE]

\* _search_google_news_rss as a whole, lines 63-112, on one outcome of the
\* fetch: "raise" (urlopen or decode raised) or a feed.
SearchGoogleNewsRss(fetch_raised, feed, max_results) ==
  IF fetch_raised THEN [raised |-> TRUE, articles |-> <<>>]
  ELSE ParseFeed(feed, max_results)

\* ------------------------------------------------------------------ state

VARIABLES
  entry,            \* the method the caller invoked
  pc,               \* the position inside it
  topic,            \* run: the topic argument
  query_planner,    \* self.query_planner: "agent" or "none"
  cleaned_topic,    \* run: cleaned_topic
  search_query,     \* run: search_query
  num_attempts,     \* get_search_results: num_attempts
  attempt,          \* get_search_results: the loop variable attempt
  search_results,   \* what get_search_results returned
  idx,              \* scrape_articles: position in search_results.articles
  scraped_articles, \* scrape_articles: the dict, as its items in insertion order
  writer_request,   \* the request the writer was invoked with
  stream,           \* the writer's stream: its chunks and whether it then fails
  pulled,           \* chunks run has taken from the writer's stream
  requested,        \* next() calls the caller has made on run's generator
  yielded,          \* chunks run has yielded to the caller
  events,           \* the external calls made so far, in order, with their outcomes
  text,             \* _sanitize_user_text: the text argument
  max_length,       \* _sanitize_user_text: the max_length argument
  sanitized,        \* the values _sanitize_user_text returned, in order
  feed,             \* _search_google_news_rss: the feed the endpoint returned
  max_results,      \* _search_google_news_rss: the max_results argument
  provider_ret,     \* what _search_google_news_rss did: raised, or its articles
  include_sources,  \* generate_blog: the include_sources argument
  responses,        \* generate_blog: the responses taken from run's stream so far
  final_output,     \* generate_blog: final_output, as its lines
  sources,          \* generate_blog: the set sources
  markdown_output,  \* generate_blog: markdown_output, as its lines
  blog_agents       \* __init__: the agent bundle, its attributes and its planner

vars == <<entry, pc, topic, query_planner, cleaned_topic, search_query,
          num_attempts, attempt, search_results, idx, scraped_articles,
          writer_request, stream, pulled, requested, yielded, events,
          text, max_length, sanitized, feed, max_results, provider_ret,
          include_sources, responses, final_output, sources, markdown_output,
          blog_agents>>

runVars == <<topic, query_planner, cleaned_topic, search_query>>
searchVars == <<num_attempts, attempt, search_results>>
scrapeVars == <<idx, scraped_articles>>
writerVars == <<writer_request, stream, pulled>>
sanitizerVars == <<text, max_length, sanitized>>
providerVars == <<feed, max_results, provider_ret>>
appVars == <<include_sources, responses, final_output, sources, markdown_output,
            blog_agents>>

\* Optional[SearchResults]
NoResults == [none |-> TRUE, articles |-> <<>>]
SearchResults(articles) == [none |-> FALSE, articles |-> articles]

NoRequest == [called |-> FALSE, topic |-> <<>>, articles |-> <<>>]
NoStream == [chunks |-> 0, fails |-> FALSE]
NoReturn == [returned |-> FALSE, raised |-> FALSE, articles |-> <<>>]

\* The attributes BlogAgents.__init__ sets (agents.py, lines 17-20).
BlogAgentsAttrs == {"llm", "searcher_agent", "article_scraper_agent", "writer_agent"}

\* The bundle app.py builds: BlogAgents(llm). It has no planner attribute.
BlogAgentsBundle == [attrs |-> BlogAgentsAttrs, planner |-> "none"]

\* A bundle that also defines query_planner_agent, as an agent or as None.
BundleWith(planner) ==
  [attrs |-> BlogAgentsAttrs \cup {"query_planner_agent"}, planner |-> planner]

\* BlogPostGenerator.__init__, lines 30-32: the attributes read from the bundle.
InitReads == {"article_scraper_agent", "query_planner_agent", "writer_agent"}

TopicChars == {DOT, NL, CTRL}
SanitizerChars == {"a", SP, NL, CTRL}

\* The caller has a generator from run(topic) and has not started it.
InitRun ==
  /\ entry = "run" /\ pc = "start"
  /\ topic \in {None} \cup Texts(TopicChars, MaxTopicLen)
  /\ query_planner \in {"agent", "none"}
  /\ cleaned_topic = <<>> /\ search_query = <<>>
  /\ num_attempts = DefaultNumAttempts /\ attempt = 0 /\ search_results = NoResults
  /\ idx = 1 /\ scraped_articles = <<>>
  /\ writer_request = NoRequest /\ stream = NoStream /\ pulled = 0
  /\ requested = 0 /\ yielded = <<>> /\ events = <<>>
  /\ text = None /\ max_length = 0 /\ sanitized = <<>>
  /\ feed = NoFeed /\ max_results = DefaultMaxResults /\ provider_ret = NoReturn
  /\ include_sources = TRUE /\ responses = <<>>
  /\ blog_agents = BundleWith(query_planner)
  /\ final_output = <<>> /\ sources = {} /\ markdown_output = <<>>

\* A topic of n letters.
LongTopic(n) == [i \in 1..n |-> "a"]

\* Raw topics at and just over the planner's length threshold.
LongTopics == {LongTopic(PlannerLengthThreshold), LongTopic(PlannerLengthThreshold + 1)}

\* The caller calls _build_search_query(raw_topic, cleaned_topic), cleaned_topic
\* the sanitized raw topic and not empty, as run passes them.
InitBuildQuery ==
  /\ entry = "_build_search_query" /\ pc = "plan"
  /\ topic \in LongTopics \cup Texts(TopicChars \cup {"a"}, MaxTopicLen)
  /\ query_planner \in {"agent", "none"}
  /\ cleaned_topic = SanitizeUserText(topic, TopicMaxLength) /\ cleaned_topic # <<>>
  /\ search_query = <<>>
  /\ num_attempts = DefaultNumAttempts /\ attempt = 0 /\ search_results = NoResults
  /\ idx = 1 /\ scraped_articles = <<>>
  /\ writer_request = NoRequest /\ stream = NoStream /\ pulled = 0
  /\ requested = 0 /\ yielded = <<>> /\ events = <<>>
  /\ text = None /\ max_length = 0 /\ sanitized = <<>>
  /\ feed = NoFeed /\ max_results = DefaultMaxResults /\ provider_ret = NoReturn
  /\ include_sources = TRUE /\ responses = <<>>
  /\ blog_agents = BundleWith(query_planner)
  /\ final_output = <<>> /\ sources = {} /\ markdown_output = <<>>

\* The search results a caller may hand to scrape_articles: any short list of
\* articles, the same url twice included.
ArticleLists ==
  UNION {[1..n -> {NewsArticle(<<"T", "1">>, <<"a">>, None),
                   NewsArticle(<<"T", "2">>, <<"b">>, None)}] : n \in 0..MaxRunFeedLen}

\* The caller calls scrape_articles(topic, search_results).
InitScrape ==
  /\ entry = "scrape_articles" /\ pc = "scrape"
  /\ topic = None /\ query_planner = "none"
  /\ cleaned_topic = <<>> /\ search_query = <<>>
  /\ num_attempts = DefaultNumAttempts /\ attempt = 0
  /\ search_results \in {SearchResults(articles) : articles \in ArticleLists}
  /\ idx = 1 /\ scraped_articles = <<>>
  /\ writer_request = NoRequest /\ stream = NoStream /\ pulled = 0
  /\ requested = 0 /\ yielded = <<>> /\ events = <<>>
  /\ text = None /\ max_length = 0 /\ sanitized = <<>>
  /\ feed = NoFeed /\ max_results = DefaultMaxResults /\ provider_ret = NoReturn
  /\ include_sources = TRUE /\ responses = <<>>
  /\ blog_agents = BundleWith(query_planner)
  /\ final_output = <<>> /\ sources = {} /\ markdown_output = <<>>

\* The caller calls get_search_results(topic, num_attempts).
InitSearch ==
  /\ entry = "get_search_results" /\ pc = "search"
  /\ topic = None /\ query_planner = "none"
  /\ cleaned_topic = <<>> /\ search_query = <<>>
  /\ num_attempts \in 0..MaxAttempts /\ attempt = 0 /\ search_results = NoResults
  /\ idx = 1 /\ scraped_articles = <<>>
  /\ writer_request = NoRequest /\ stream = NoStream /\ pulled = 0
  /\ requested = 0 /\ yielded = <<>> /\ events = <<>>
  /\ text = None /\ max_length = 0 /\ sanitized = <<>>
  /\ feed = NoFeed /\ max_results = DefaultMaxResults /\ provider_ret = NoReturn
  /\ include_sources = TRUE /\ responses = <<>>
  /\ blog_agents = BundleWith(query_planner)
  /\ final_output = <<>> /\ sources = {} /\ markdown_output = <<>>

\* The caller calls _sanitize_user_text(text, max_length).
InitSanitize ==
  /\ entry = "_sanitize_user_text" /\ pc = "call"
  /\ topic = None /\ query_planner = "none"
  /\ cleaned_topic = <<>> /\ search_query = <<>>
  /\ num_attempts = DefaultNumAttempts /\ attempt = 0 /\ search_results = NoResults
  /\ idx = 1 /\ scraped_articles = <<>>
  /\ writer_request = NoRequest /\ stream = NoStream /\ pulled = 0
  /\ requested = 0 /\ yielded = <<>> /\ events = <<>>
  /\ text \in {None} \cup Texts(SanitizerChars, MaxLen)
  /\ max_length \in 0..MaxLen
  /\ sanitized = <<>>
  /\ feed = NoFeed /\ max_results = DefaultMaxResults /\ provider_ret = NoReturn
  /\ include_sources = TRUE /\ responses = <<>>
  /\ blog_agents = BundleWith(query_planner)
  /\ final_output = <<>> /\ sources = {} /\ markdown_output = <<>>

\* The caller calls _search_google_news_rss(topic, max_results) against an
\* endpoint that answers with the feed, or whose fetch raises.
InitProvider ==
  /\ entry = "_search_google_news_rss" /\ pc = "call"
  /\ topic = None /\ query_planner = "none"
  /\ cleaned_topic = <<>> /\ search_query = <<>>
  /\ num_attempts = DefaultNumAttempts /\ attempt = 0 /\ search_results = NoResults
  /\ idx = 1 /\ scraped_articles = <<>>
  /\ writer_request = NoRequest /\ stream = NoStream /\ pulled = 0
  /\ requested = 0 /\ yielded = <<>> /\ events = <<>>
  /\ text = None /\ max_length = 0 /\ sanitized = <<>>
  /\ feed \in {NoFeed} \cup
       {[wellformed |-> f.wellformed, items |-> f.items, fetched |-> TRUE] :
          f \in FeedsOf(FeedItems \cup {OddItem}, MaxFeedLen)}
  /\ max_results \in {1, 2, DefaultMaxResults}
  /\ provider_ret = NoReturn
  /\ include_sources = TRUE /\ responses = <<>>
  /\ blog_agents = BundleWith(query_planner)
  /\ final_output = <<>> /\ sources = {} /\ markdown_output = <<>>

\* user_topic is blank: not user_topic or user_topic.strip() == ""
BlankUserTopic(user_topic) == ~Truthy(user_topic) \/ Strip(user_topic) = <<>>

\* The caller (the UI) calls generate_blog(..., user_topic, ..., include_sources).
InitGenerateBlog ==
  /\ entry = "generate_blog" /\ pc = "call"
  /\ topic \in {None, <<SP>>, <<"a">>} /\ query_planner = "none"
  /\ cleaned_topic = <<>> /\ search_query = <<>>
  /\ num_attempts = DefaultNumAttempts /\ attempt = 0 /\ search_results = NoResults
  /\ idx = 1 /\ scraped_articles = <<>>
  /\ writer_request = NoRequest /\ stream = NoStream /\ pulled = 0
  /\ requested = 0 /\ yielded = <<>> /\ events = <<>>
  /\ text = None /\ max_length = 0 /\ sanitized = <<>>
  /\ feed = NoFeed /\ max_results = DefaultMaxResults /\ provider_ret = NoReturn
  /\ include_sources \in BOOLEAN /\ responses = <<>>
  /\ blog_agents \in {BlogAgentsBundle, BundleWith("agent")}
  /\ final_output = <<>> /\ sources = {} /\ markdown_output = <<>>

\* The caller constructs BlogPostGenerator(blog_agents=...), from the bundle
\* of agents.py or from one that defines a planner attribute.
InitConstruct ==
  /\ entry = "__init__" /\ pc = "call"
  /\ topic = None /\ query_planner = "none"
  /\ cleaned_topic = <<>> /\ search_query = <<>>
  /\ num_attempts = DefaultNumAttempts /\ attempt = 0 /\ search_results = NoResults
  /\ idx = 1 /\ scraped_articles = <<>>
  /\ writer_request = NoRequest /\ stream = NoStream /\ pulled = 0
  /\ requested = 0 /\ yielded = <<>> /\ events = <<>>
  /\ text = None /\ max_length = 0 /\ sanitized = <<>>
  /\ feed = NoFeed /\ max_results = DefaultMaxResults /\ provider_ret = NoReturn
  /\ include_sources = TRUE /\ responses = <<>>
  /\ final_output = <<>> /\ sources = {} /\ markdown_output = <<>>
  /\ blog_agents \in {BlogAgentsBundle, BundleWith("agent"), BundleWith("none")}

Init ==
  \/ InitConstruct
  \/ InitRun \/ InitBuildQuery \/ InitSearch \/ InitScrape \/ InitSanitize \/ InitProvider
  \/ InitGenerateBlog

\* ---------------------------------------------------------------- chunks

\* RunResponse(content=...): who produced the chunk, its fixed text, the topic
\* formatted into it, and for a writer chunk its position in the writer's stream.
Chunk(src, msg, about, n) == [src |-> src, msg |-> msg, about |-> about, n |-> n]

PleaseChunk ==
  Chunk("run", "Please provide a topic or some ideas to get started.", <<>>, 0)

SorryChunk(about) ==
  Chunk("run", "Sorry, could not find any articles on the topic: ", about, 0)

\* A slip of the forwarding: every chunk is the stream's first one.
WriterChunkFirst(n) == Chunk("writer", "", <<>>, 1)

\* The n-th chunk of the writer's stream, as run yields it.
WriterChunk(n) == Chunk("writer", "", <<>>, n)

Event(op, arg, out) == [op |-> op, arg |-> arg, out |-> out]

\* A slip of the streaming: the body runs ahead of the caller's requests.
RunnableAhead == TRUE

\* run is a generator: its body advances only while a next() of the caller is
\* unanswered. The other methods are plain calls.
Runnable == entry = "run" => Len(yielded) < requested

\* ------------------------------------------------------------ the caller

\* next() on run's generator, which is suspended (or not yet started).
Pull ==
  /\ entry = "run"
  /\ pc \notin {"done", "raised"}
  /\ Len(yielded) = requested
  /\ requested' = requested + 1
  /\ UNCHANGED <<entry, appVars, pc, runVars, searchVars, scrapeVars, writerVars,
                 yielded, events, sanitizerVars, providerVars>>

\* --------------------------------------------------------------------- run

\* run, lines 158-164
Validate ==
  /\ entry = "run" /\ pc = "start" /\ Runnable
  /\ LET raw_topic == OrEmpty(topic)
         cleaned == SanitizeUserText(raw_topic, TopicMaxLength)
     IN  \/ /\ cleaned = <<>>
            /\ yielded' = Append(yielded, PleaseChunk)
            /\ pc' = "after_yield"
            /\ UNCHANGED cleaned_topic
         \/ /\ cleaned # <<>>
            /\ cleaned_topic' = cleaned
            /\ pc' = "plan"
            /\ UNCHANGED yielded
  /\ UNCHANGED <<entry, appVars, topic, query_planner, search_query, searchVars, scrapeVars,
                 writerVars, requested, events, sanitizerVars, providerVars>>

\* run, lines 162 and 174: the return after the single chunk of a hard stop.
ReturnAfterYield ==
  /\ entry = "run" /\ pc = "after_yield" /\ Runnable
  /\ pc' = "done"
  /\ UNCHANGED <<entry, appVars, runVars, searchVars, scrapeVars, writerVars, requested,
                 yielded, events, sanitizerVars, providerVars>>

\* run, line 167: _build_search_query (lines 42-61), also called on its own.
PlanQuery ==
  /\ entry \in {"run", "_build_search_query"} /\ pc = "plan" /\ Runnable
  /\ \/ /\ query_planner = "none" \/ ~ShouldUseQueryPlanner(OrEmpty(topic))
        /\ search_query' = cleaned_topic
        /\ UNCHANGED events
     \/ /\ query_planner # "none" /\ ShouldUseQueryPlanner(OrEmpty(topic))
        /\ \E outcome \in PlannerOutcomes :
             /\ search_query' = PlannedQuery(cleaned_topic, outcome)
             /\ events' = Append(events, Event("planner", outcome.content, outcome.kind))
  /\ pc' = IF entry = "run" THEN "search" ELSE "returned"
  /\ UNCHANGED <<entry, appVars, topic, query_planner, cleaned_topic, searchVars, scrapeVars,
                 writerVars, requested, yielded, sanitizerVars, providerVars>>

\* ------------------------------------------------------ get_search_results

\* time.sleep(min(2 * (attempt + 1), 5)), attempt the 0-based loop variable
BackoffDelay(k) == Min(BackoffFactor * (k + 1), BackoffCap)

\* A slip of the loop: one attempt too many.
LoopContinuesOneMore == attempt <= num_attempts

\* for attempt in range(num_attempts): the loop goes on
LoopContinues == attempt < num_attempts

\* A slip of the test: a result is returned whatever it holds.
NonEmptyAlways(articles) == TRUE

\* get_search_results, line 119: len(search_results.articles) > 0
NonEmpty(articles) == Len(articles) > 0

\* get_search_results, lines 116-124: one attempt, up to its outcome.
SearchAttempt ==
  /\ entry \in {"run", "get_search_results"} /\ pc = "search" /\ Runnable
  /\ LoopContinues
  /\ \E fetch_raised \in BOOLEAN, f \in FeedsOf(RunFeedItems \cup {OddItem}, MaxRunFeedLen) :
       /\ fetch_raised => f.items = <<>> /\ ~f.wellformed
       /\ LET r == SearchGoogleNewsRss(fetch_raised, f, DefaultMaxResults) IN
          \/ /\ r.raised
             /\ events' = Append(events, Event("search", attempt + 1, "raise"))
             /\ pc' = "backoff"
             /\ UNCHANGED <<attempt, search_results>>
          \/ /\ ~r.raised /\ NonEmpty(r.articles)
             /\ events' = Append(events, Event("search", attempt + 1, "found"))
             /\ search_results' = SearchResults(r.articles)
             /\ pc' = "searched"
             /\ UNCHANGED attempt
          \/ /\ ~r.raised /\ ~NonEmpty(r.articles)
             /\ events' = Append(events, Event("search", attempt + 1, "empty"))
             /\ attempt' = attempt + 1
             /\ UNCHANGED <<pc, search_results>>
  /\ UNCHANGED <<entry, appVars, runVars, num_attempts, scrapeVars, writerVars, requested,
                 yielded, sanitizerVars, providerVars>>

\* get_search_results, line 125: the sleep of the except branch.
Backoff ==
  /\ entry \in {"run", "get_search_results"} /\ pc = "backoff" /\ Runnable
  /\ events' = Append(events, Event("sleep", attempt + 1, BackoffDelay(attempt)))
  /\ attempt' = attempt + 1
  /\ pc' = "search"
  /\ UNCHANGED <<entry, appVars, runVars, num_attempts, search_results, scrapeVars, writerVars,
                 requested, yielded, sanitizerVars, providerVars>>

\* get_search_results, lines 127-128: the loop is over, return None.
SearchExhausted ==
  /\ entry \in {"run", "get_search_results"} /\ pc = "search" /\ Runnable
  /\ ~LoopContinues
  /\ search_results' = NoResults
  /\ pc' = "searched"
  /\ UNCHANGED <<entry, appVars, runVars, num_attempts, attempt, scrapeVars, writerVars,
                 requested, yielded, events, sanitizerVars, providerVars>>

\* A slip of the test: an absent result is let through.
NoArticlesFoundOnlyEmpty(results) == ~results.none /\ Len(results.articles) = 0

\* run, line 170: search_results is None or len(search_results.articles) == 0
NoArticlesFound(results) == results.none \/ Len(results.articles) = 0

\* run, lines 168-174
CheckSearch ==
  /\ entry = "run" /\ pc = "searched" /\ Runnable
  /\ \/ /\ NoArticlesFound(search_results)
        /\ yielded' = Append(yielded, SorryChunk(cleaned_topic))
        /\ pc' = "after_yield"
     \/ /\ ~NoArticlesFound(search_results)
        /\ pc' = "scrape"
        /\ UNCHANGED yielded
  /\ UNCHANGED <<entry, appVars, runVars, searchVars, scrapeVars, writerVars, requested,
                 events, sanitizerVars, providerVars>>

\* --------------------------------------------------------- scrape_articles

ScrapedArticle(title, url, summary, content) ==
  [title |-> title, url |-> url, summary |-> summary, content |-> content]

\* Dict[str, ScrapedArticle] as the sequence of its items, in insertion order.
DictHas(d, key) == \E i \in 1..Len(d) : d[i].key = key

\* d[key] = val: a new key is appended, a key already there keeps its place.
DictSet(d, key, val) ==
  IF DictHas(d, key)
  THEN [i \in 1..Len(d) |-> IF d[i].key = key THEN [key |-> key, val |-> val] ELSE d[i]]
  ELSE Append(d, [key |-> key, val |-> val])

\* d.values()
DictValues(d) == [i \in 1..Len(d) |-> d[i].val]

DictKeys(d) == {d[i].key : i \in 1..Len(d)}

\* A url the scraper may report that no search result carries (a redirect target).
RedirectUrl == <<"r">>

\* What article_scraper.run(article) can do: raise; return no usable record
\* (None, a response without content, content of another type); or return a
\* ScrapedArticle, whose url and content are the scraper's own.
ScraperOutcomes(article, articles) ==
  {[kind |-> k, url |-> article.url, content |-> None] :
     k \in {"raise", "none", "no_content", "wrong_type"}}
  \cup
  {[kind |-> "article", url |-> u, content |-> c] :
     u \in {article.url, RedirectUrl} \cup Urls(articles), c \in {None, <<"x">>}}

\* scrape_articles, line 143: the key the record is stored under.
StoreKey(article, record) == record.url

\* scrape_articles, lines 132-148: one turn of the loop.
ScrapeStep ==
  /\ entry \in {"run", "scrape_articles"} /\ pc = "scrape" /\ Runnable
  /\ idx <= Len(search_results.articles)
  /\ LET article == search_results.articles[idx] IN
     \/ /\ DictHas(scraped_articles, article.url)
        /\ idx' = idx + 1
        /\ UNCHANGED <<pc, scraped_articles, events>>
     \/ /\ ~DictHas(scraped_articles, article.url)
        /\ \E outcome \in ScraperOutcomes(article, search_results.articles) :
             \/ /\ outcome.kind = "raise"
                /\ events' = Append(events, Event("scraper", article.url, "raise"))
                /\ pc' = "raised"
                /\ UNCHANGED <<idx, scraped_articles>>
             \/ /\ outcome.kind = "article"
                /\ LET record == ScrapedArticle(article.title, outcome.url,
                                                article.summary, outcome.content)
                   IN  scraped_articles' =
                         DictSet(scraped_articles, StoreKey(article, record), record)
                /\ events' = Append(events, Event("scraper", article.url, "article"))
                /\ idx' = idx + 1
                /\ UNCHANGED pc
             \/ /\ outcome.kind \in {"none", "no_content", "wrong_type"}
                /\ events' = Append(events, Event("scraper", article.url, "failure"))
                /\ idx' = idx + 1
                /\ UNCHANGED <<pc, scraped_articles>>
  /\ UNCHANGED <<entry, appVars, runVars, searchVars, writerVars, requested, yielded,
                 sanitizerVars, providerVars>>

\* scrape_articles, line 149: the loop is over, the map is returned to a
\* caller other than run.
ScrapeReturn ==
  /\ entry = "scrape_articles" /\ pc = "scrape"
  /\ idx > Len(search_results.articles)
  /\ pc' = "returned"
  /\ UNCHANGED <<entry, appVars, runVars, searchVars, scrapeVars, writerVars, requested,
                 yielded, events, sanitizerVars, providerVars>>

\* run, lines 180-188: one placeholder per search result.
Placeholders(articles) ==
  [i \in 1..Len(articles) |->
     [key |-> articles[i].url,
      val |-> ScrapedArticle(articles[i].title, articles[i].url,
                             articles[i].summary, None)]]

RECURSIVE DictOf(_, _)
\* A dict comprehension: later items with a key already there replace its value.
DictOf(items, d) ==
  IF items = <<>> THEN d
  ELSE DictOf(Tail(items), DictSet(d, Head(items).key, Head(items).val))

\* A slip of the degradation: a placeholder is added for every search result
\* whose url is not a key of the map, also when the map has entries.
WriterArticlesMixed(scraped, articles) ==
  DictValues(scraped) \o
    DictValues(DictOf(SelectSeq(Placeholders(articles),
                                LAMBDA item : ~DictHas(scraped, item.key)), <<>>))

\* A slip of the degradation: no placeholders when nothing was scraped.
WriterArticlesNoFallback(scraped, articles) == DictValues(scraped)

\* run, lines 178-196: the articles of the writer's input.
WriterArticles(scraped, articles) ==
  IF scraped = <<>>
  THEN DictValues(DictOf(Placeholders(articles), <<>>))
  ELSE DictValues(scraped)

\* run, lines 177-199: scrape_articles has returned; the writer is invoked and
\* answers with a stream of some chunks that ends, or fails after them.
InvokeWriter ==
  /\ entry = "run" /\ pc = "scrape" /\ Runnable
  /\ idx > Len(search_results.articles)
  /\ writer_request' =
       [called |-> TRUE, topic |-> cleaned_topic,
        articles |-> WriterArticles(scraped_articles, search_results.articles)]
  /\ \E n \in 0..MaxChunks, fails \in BOOLEAN :
       stream' = [chunks |-> n, fails |-> fails]
  /\ events' = Append(events, Event("writer", cleaned_topic, "stream"))
  /\ pc' = "stream"
  /\ UNCHANGED <<entry, appVars, runVars, searchVars, scrapeVars, pulled, requested, yielded,
                 sanitizerVars, providerVars>>

\* A slip of the propagation: the writer's failure is swallowed.
StreamEndSwallowed(fails) == "done"

\* run, line 199: how yield from ends. An exception of the writer's stream is
\* not caught in run and leaves it; an exhausted stream lets run return.
StreamEnd(fails) == IF fails THEN "raised" ELSE "done"

\* run, line 199: yield from the writer's stream.
StreamStep ==
  /\ entry = "run" /\ pc = "stream" /\ Runnable
  /\ \/ /\ pulled < stream.chunks
        /\ pulled' = pulled + 1
        /\ yielded' = Append(yielded, WriterChunk(pulled + 1))
        /\ UNCHANGED pc
     \/ /\ pulled = stream.chunks
        /\ pc' = StreamEnd(stream.fails)
        /\ UNCHANGED <<pulled, yielded>>
  /\ UNCHANGED <<entry, appVars, runVars, searchVars, scrapeVars, writer_request, stream,
                 requested, events, sanitizerVars, providerVars>>

\* ------------------------------------------------------------ direct calls

\* _sanitize_user_text(text, max_length)
SanitizeCall ==
  /\ entry = "_sanitize_user_text" /\ pc = "call"
  /\ sanitized' = <<SanitizeUserText(text, max_length)>>
  /\ pc' = "again"
  /\ UNCHANGED <<entry, appVars, runVars, searchVars, scrapeVars, writerVars, requested,
                 yielded, events, text, max_length, providerVars>>

\* _sanitize_user_text(result, max_length): the result sanitized once more.
SanitizeAgain ==
  /\ entry = "_sanitize_user_text" /\ pc = "again"
  /\ sanitized' = Append(sanitized, SanitizeUserText(sanitized[1], max_length))
  /\ pc' = "returned"
  /\ UNCHANGED <<entry, appVars, runVars, searchVars, scrapeVars, writerVars, requested,
                 yielded, events, text, max_length, providerVars>>

\* _search_google_news_rss(topic, max_results)
ProviderCall ==
  /\ entry = "_search_google_news_rss" /\ pc = "call"
  /\ LET r == SearchGoogleNewsRss(~feed.fetched, feed, max_results)
     IN  provider_ret' =
           [returned |-> ~r.raised, raised |-> r.raised, articles |-> r.articles]
  /\ pc' = "returned"
  /\ UNCHANGED <<entry, appVars, runVars, searchVars, scrapeVars, writerVars, requested,
                 yielded, events, sanitizerVars, feed, max_results>>

\* ----------------------------------------------------------- generate_blog

\* A document is the sequence of its lines, a line the sequence of its words.
SourcesHeading == <<"##", "Sources">>

EmptyLine == <<>>

\* f"- {src}"
Bullet(src) == <<"-", src>>

\* The sources a response may name, in ascending order.
SourceNames == <<"s1", "s2">>

Range(seq) == {seq[i] : i \in 1..Len(seq)}

\* sorted(sources)
Sorted(set) == SelectSeq(SourceNames, LAMBDA src : src \in set)

\* What a response's content may be: nothing (None or ""), a line of text, or
\* text that follows the writer's expected_output, which closes with a
\* "## Sources" section (agents.py, lines 152-153).
ResponseContents ==
  { <<>>,
    <<<<"text">>>>,
    <<<<"text">>, SourcesHeading, Bullet("s1")>> }

\* What a response's sources attribute may be: nothing, a list (with a
\* repetition), a set, or another value, which is added as its str().
ResponseSources ==
  { [kind |-> "none", items |-> <<>>],
    [kind |-> "list", items |-> <<"s2", "s1", "s2">>],
    [kind |-> "set", items |-> <<"s1">>],
    [kind |-> "other", items |-> <<"s2">>] }

Responses == {[content |-> c, sources |-> s] : c \in ResponseContents, s \in ResponseSources}

\* BlogPostGenerator.__init__, lines 28-32: reading an attribute the bundle
\* does not have raises AttributeError.
ConstructionRaises(bundle) == ~(InitReads \subseteq bundle.attrs)

\* BlogPostGenerator(blog_agents=...)
Construct ==
  /\ entry = "__init__" /\ pc = "call"
  /\ \/ /\ ConstructionRaises(blog_agents)
        /\ pc' = "raised"
        /\ UNCHANGED query_planner
     \/ /\ ~ConstructionRaises(blog_agents)
        /\ query_planner' = blog_agents.planner
        /\ pc' = "constructed"
  /\ UNCHANGED <<entry, topic, cleaned_topic, search_query, searchVars, scrapeVars,
                 writerVars, requested, yielded, events, sanitizerVars, providerVars,
                 appVars>>

\* generate_blog, lines 14-35: the blank topic returns at once, with no
\* document; otherwise the pipeline is constructed from the bundle (22-28),
\* which may raise, and run is called.
GenerateBlogCall ==
  /\ entry = "generate_blog" /\ pc = "call"
  /\ \/ /\ BlankUserTopic(topic)
        /\ pc' = "returned_empty"
     \/ /\ ~BlankUserTopic(topic) /\ ConstructionRaises(blog_agents)
        /\ pc' = "raised_constructing"
     \/ /\ ~BlankUserTopic(topic) /\ ~ConstructionRaises(blog_agents)
        /\ pc' = "loop"
  /\ UNCHANGED <<entry, runVars, searchVars, scrapeVars, writerVars, requested,
                 yielded, events, sanitizerVars, providerVars, appVars>>

\* generate_blog, lines 36-43: one turn of the loop over run's responses.
ConsumeResponse ==
  /\ entry = "generate_blog" /\ pc = "loop"
  /\ Len(responses) < MaxDocChunks
  /\ \E response \in Responses :
       /\ responses' = Append(responses, response)
       /\ final_output' = IF response.content # <<>>
                          THEN final_output \o response.content
                          ELSE final_output
       /\ sources' = IF response.sources.kind # "none" /\ response.sources.items # <<>>
                     THEN sources \cup Range(response.sources.items)
                     ELSE sources
  /\ UNCHANGED <<entry, pc, runVars, searchVars, scrapeVars, writerVars, requested,
                 yielded, events, sanitizerVars, providerVars, include_sources,
                 markdown_output, blog_agents>>

\* generate_blog, lines 45-48: markdown_output
MarkdownOutput(output, srcs, include) ==
  IF include /\ srcs # {}
  THEN output \o <<EmptyLine, EmptyLine, SourcesHeading>>
              \o [k \in 1..Len(Sorted(srcs)) |-> Bullet(Sorted(srcs)[k])]
  ELSE output

\* generate_blog, lines 36 and 45-58: run's stream is exhausted and the
\* document is assembled, or the stream raises and generate_blog with it.
StreamEnds ==
  /\ entry = "generate_blog" /\ pc = "loop"
  /\ \/ /\ markdown_output' = MarkdownOutput(final_output, sources, include_sources)
        /\ pc' = "returned"
     \/ /\ pc' = "raised"
        /\ UNCHANGED markdown_output
  /\ UNCHANGED <<entry, runVars, searchVars, scrapeVars, writerVars, requested,
                 yielded, events, sanitizerVars, providerVars, include_sources,
                 responses, final_output, sources, blog_agents>>

Next ==
  \/ Pull
  \/ Validate
  \/ ReturnAfterYield
  \/ PlanQuery
  \/ SearchAttempt
  \/ Backoff
  \/ SearchExhausted
  \/ CheckSearch
  \/ ScrapeStep
  \/ ScrapeReturn
  \/ InvokeWriter
  \/ StreamStep
  \/ SanitizeCall
  \/ SanitizeAgain
  \/ ProviderCall
  \/ Construct
  \/ GenerateBlogCall
  \/ ConsumeResponse
  \/ StreamEnds

Spec == Init /\ [][Next]_vars

\* ------------------------------------------------------------ properties

\* The events of one kind, in order.
EventsOf(op) == SelectSeq(events, LAMBDA e : e.op = op)

LastEvent == events[Len(events)]

\* C1: in the batch scrape a failed article never aborts the batch: after a
\* scraper call that raised, run has not ended by that exception, and once the
\* writer is invoked every article whose scrape raised has a map entry with
\* content absent.
C1_ScrapeFailureNeverAborts ==
  entry = "run" =>
    /\ ~(pc = "raised" /\ events # <<>> /\ LastEvent.op = "scraper")
    /\ writer_request.called =>
         \A i \in 1..Len(events) :
           (events[i].op = "scraper" /\ events[i].out = "raise") =>
             \E j \in 1..Len(scraped_articles) :
               /\ scraped_articles[j].key = events[i].arg
               /\ scraped_articles[j].val.content = None

\* C2: whenever the writer is invoked the article list of its request is not
\* empty: it is the scraped map's values when the map has any, and otherwise
\* one placeholder with content absent per search result, in search order.
C2_WriterInputNonEmpty ==
  (entry = "run" /\ writer_request.called) =>
    /\ Len(writer_request.articles) > 0
    /\ scraped_articles # <<>> =>
         Len(writer_request.articles) = Len(scraped_articles)
    /\ scraped_articles = <<>> =>
         /\ Len(writer_request.articles) = Len(search_results.articles)
         /\ \A i \in 1..Len(writer_request.articles) :
              /\ writer_request.articles[i].url = search_results.articles[i].url
              /\ writer_request.articles[i].content = None

\* C2 witness: every scrape of two search results was skipped, and the writer
\* was invoked with two placeholders.
C2_Witness ==
  /\ entry = "run" /\ writer_request.called
  /\ scraped_articles = <<>>
  /\ Len(search_results.articles) = 2
  /\ Len(EventsOf("scraper")) = 2
  /\ Len(writer_request.articles) = 2

\* C3: every entry of the scraped-article map is keyed by the url of the stored
\* record, and that url is the url of a search result, whatever url the
\* scraper reported.
C3_MapKeyedBySearchUrl ==
  entry = "run" =>
    \A i \in 1..Len(scraped_articles) :
      /\ scraped_articles[i].key = scraped_articles[i].val.url
      /\ scraped_articles[i].key \in Urls(search_results.articles)

\* C4: get_search_results calls the underlying search at most num_attempts
\* times, the calls are numbered 1, 2, ... in order, and no call follows one
\* that found articles.
C4_AtMostNumAttemptsCalls ==
  entry \in {"run", "get_search_results"} =>
    LET calls == EventsOf("search") IN
      /\ Len(calls) <= num_attempts
      /\ \A i \in 1..Len(calls) :
           /\ calls[i].arg = i
           /\ calls[i].out = "found" => i = Len(calls)

\* C4 witness: a direct call with num_attempts = 3 whose first two attempts
\* failed, one by raising and one by an empty result, and whose third found
\* articles and returned them.
C4_Witness ==
  /\ entry = "get_search_results" /\ pc = "searched" /\ num_attempts = 3
  /\ LET calls == EventsOf("search") IN
       /\ Len(calls) = 3
       /\ calls[1].out = "raise" /\ calls[2].out = "empty" /\ calls[3].out = "found"
  /\ ~search_results.none

\* C5: every failed attempt k that is followed by another attempt is followed
\* first by a sleep of min(2k, 5), whether it failed by raising or by an empty
\* result.
C5_BackoffAfterEveryFailure ==
  entry \in {"run", "get_search_results"} =>
    \A i \in 1..Len(events) :
      (/\ events[i].op = "search" /\ events[i].out # "found"
       /\ \E j \in (i + 1)..Len(events) : events[j].op = "search")
      => /\ events[i + 1].op = "sleep"
         /\ events[i + 1].out = Min(2 * events[i].arg, 5)

\* C6: when the retry wrapper came back with nothing, run yields exactly one
\* chunk, the could-not-find message for the topic, then ends, and neither
\* the scraper nor the writer is invoked.
C6_NoArticlesHardStop ==
  (entry = "run" /\ pc \in {"after_yield", "done"} /\ cleaned_topic # <<>>
   /\ search_results.none) =>
    /\ yielded = <<SorryChunk(cleaned_topic)>>
    /\ EventsOf("scraper") = <<>>
    /\ EventsOf("writer") = <<>>
    /\ ~writer_request.called

\* C6 witness: the search raised three times in a row and run has ended.
C6_Witness ==
  /\ entry = "run" /\ pc = "done" /\ search_results.none
  /\ Len(EventsOf("search")) = 3
  /\ \A i \in 1..Len(events) : events[i].op = "search" => events[i].out = "raise"
  /\ Len(yielded) = 1 /\ yielded[1].about = cleaned_topic

\* A topic that is absent or made of whitespace and control characters only.
BlankTopic ==
  topic = None \/ \A i \in 1..Len(topic) : topic[i] \in Whitespace \cup ControlChars

\* C7: for a topic whose sanitized form is empty, run yields exactly one chunk,
\* the fixed please-provide-a-topic message, and ends; no planner, search,
\* scraper or writer call is made.
C7_EmptyTopicHardStop ==
  (entry = "run" /\ BlankTopic) =>
    /\ events = <<>> /\ ~writer_request.called
    /\ pc \in {"start", "after_yield", "done"}
    /\ yielded = IF pc = "start" THEN <<>> ELSE <<PleaseChunk>>

\* C7 witness: a topic of a newline and a control character; run has ended.
C7_Witness ==
  /\ entry = "run" /\ topic = <<NL, CTRL>> /\ pc = "done"
  /\ yielded = <<PleaseChunk>>

\* The items of the feed that carry both a title and a link.
AcceptedItems == SelectSeq(feed.items, LAMBDA it : Truthy(it.title) /\ Truthy(it.link))

\* The positions, among the accepted items, of the first occurrence of each url.
FirstOccurrences ==
  {i \in 1..Len(AcceptedItems) :
     \A j \in 1..(i - 1) : Strip(AcceptedItems[j].link) # Strip(AcceptedItems[i].link)}

\* The k-th first occurrence, in feed order.
NthFirstOccurrence(k) ==
  CHOOSE i \in FirstOccurrences : Cardinality({j \in FirstOccurrences : j <= i}) = k

\* A feed as feeds are written: every item has a title and a link that are not
\* blank, and a feed that is not well-formed XML writes its titles as CDATA.
RegularFeed ==
  \A i \in 1..Len(feed.items) :
    /\ Truthy(feed.items[i].title) /\ Strip(feed.items[i].title) # <<>>
    /\ Truthy(feed.items[i].link) /\ Strip(feed.items[i].link) # <<>>
    /\ ~feed.wellformed => feed.items[i].markup = "cdata"

\* C8: the list the search provider returns holds each url once, the item kept
\* for a url is its first occurrence in the feed, and the kept items are in
\* feed order (urls a, b, a, c, b give [a, b, c]), on the structured path and
\* on the pattern-based fallback path alike.
C8_FirstOccurrenceDedup ==
  (entry = "_search_google_news_rss" /\ pc = "returned" /\ feed.fetched
   /\ RegularFeed) =>
    /\ provider_ret.returned
    /\ Len(provider_ret.articles) = Min(Cardinality(FirstOccurrences), max_results)
    /\ \A k \in 1..Len(provider_ret.articles) :
         LET item == AcceptedItems[NthFirstOccurrence(k)] IN
           /\ provider_ret.articles[k].url = Strip(item.link)
           /\ provider_ret.articles[k].title = Strip(Unescape(item.title))

\* C9: the sanitizer is idempotent: sanitizing its own result with the same
\* max_length returns that result unchanged.
C9_SanitizeIdempotent ==
  (entry = "_sanitize_user_text" /\ pc = "returned") => sanitized[2] = sanitized[1]

\* run has left the query planner step.
Planned == entry = "run" /\ pc \notin {"start", "plan"} /\ cleaned_topic # <<>>

\* C10: the query planner step never raises and always yields a usable query:
\* when the model call raises, returns nothing, or returns content that is
\* empty once processed, the query is cleaned_topic; otherwise it is the
\* processed content; and the query is never empty.
C10_PlannerFallsBack ==
  Planned =>
    /\ search_query # <<>>
    /\ Len(EventsOf("planner")) <= 1
    /\ EventsOf("planner") = <<>> => search_query = cleaned_topic
    /\ \A i \in 1..Len(events) :
         events[i].op = "planner" =>
           LET processed ==
                 IF events[i].out = "content" /\ Truthy(events[i].arg)
                 THEN ProcessPlannerContent(events[i].arg)
                 ELSE <<>>
           IN  search_query = IF processed = <<>> THEN cleaned_topic ELSE processed

\* C10 witness: the planner's model call raised, and run went on to search with
\* the cleaned topic as its query.
C10_Witness ==
  /\ Planned /\ pc = "search"
  /\ Len(EventsOf("planner")) = 1
  /\ EventsOf("planner")[1].out = "raise"
  /\ search_query = cleaned_topic

\* C11: the chunk stream is pull-driven: run has never taken more chunks from
\* the writer's stream than the caller has requested, and while the caller is
\* not asking (every next() answered) no step takes a chunk from the writer or
\* makes an external call.
C11_PullDriven ==
  /\ [](entry = "run" => pulled <= requested)
  /\ [][(entry = "run" /\ Len(yielded) = requested)
          => (pulled' = pulled /\ events' = events /\ writer_request' = writer_request)]_vars

\* C11 witness: the caller asked once and holds the writer's first chunk,
\* while the writer's stream has a second chunk that has not been taken.
C11_Witness ==
  /\ entry = "run" /\ pc = "stream"
  /\ requested = 1 /\ Len(yielded) = 1 /\ pulled = 1
  /\ stream.chunks = 2

\* The chunks run has yielded are the first k chunks of the writer's stream,
\* each once and in generation order, and nothing else.
YieldedIsWriterPrefix(k) ==
  /\ Len(yielded) = k
  /\ \A i \in 1..k : yielded[i] = Chunk("writer", "", <<>>, i)

\* C12: when the writer's stream fails, at its start or after some chunks, run
\* ends by that failure and never returns normally; what the caller has got is
\* exactly the chunks the writer produced before the failure, in order, with
\* no chunk of run's own (no fallback text) among them.
C12_WriterFailurePropagates ==
  (entry = "run" /\ writer_request.called /\ stream.fails) =>
    /\ pc \in {"stream", "raised"}
    /\ (pulled = stream.chunks /\ pc # "stream") => pc = "raised"
    /\ pc = "raised" => YieldedIsWriterPrefix(stream.chunks)
    /\ \A i \in 1..Len(yielded) : yielded[i].src = "writer" /\ yielded[i].msg = ""

\* C12 witness: the writer failed after its first chunk; run has ended by the
\* failure and the caller holds that one chunk.
C12_Witness ==
  /\ entry = "run" /\ pc = "raised"
  /\ writer_request.called /\ stream.fails /\ stream.chunks = 1
  /\ Len(yielded) = 1 /\ yielded[1].src = "writer"

\* C15: in a run that invoked the writer, the chunks yielded to the caller are
\* at every moment the chunks taken from the writer's stream so far, each once
\* and in generation order, and run is over exactly when the stream is
\* exhausted: not before its last chunk, and by a normal return only if the
\* stream ended without a failure.
C15_ChunksAreWritersInOrder ==
  (entry = "run" /\ writer_request.called) =>
    /\ pulled <= stream.chunks
    /\ YieldedIsWriterPrefix(pulled)
    /\ pc \in {"stream", "done", "raised"}
    /\ pc \in {"done", "raised"} => pulled = stream.chunks
    /\ pc = "done" => ~stream.fails

\* C15 witness: a stream of two chunks was forwarded whole and run returned.
C15_Witness ==
  /\ entry = "run" /\ pc = "done" /\ writer_request.called
  /\ stream.chunks = 2 /\ ~stream.fails /\ Len(yielded) = 2

\* C14: get_search_results never ends by an exception. When it has returned,
\* the value is none exactly when all num_attempts attempts were made and each
\* raised or found nothing; otherwise the value belongs to the first attempt
\* that found something, which is the last one made, and it is not empty.
C14_NoneIffAllAttemptsFailed ==
  LET calls == EventsOf("search") IN
  /\ entry = "get_search_results" => pc # "raised"
  /\ (entry = "run" /\ pc = "raised") => LastEvent.op # "search"
  /\ (entry \in {"run", "get_search_results"} /\ pc = "searched") =>
       /\ search_results.none <=>
            /\ Len(calls) = num_attempts
            /\ \A i \in 1..Len(calls) : calls[i].out \in {"raise", "empty"}
       /\ ~search_results.none =>
            /\ Len(search_results.articles) > 0
            /\ calls # <<>> /\ calls[Len(calls)].out = "found"
            /\ \A i \in 1..(Len(calls) - 1) : calls[i].out \in {"raise", "empty"}

\* C14 witness: a direct call with three attempts, of which some raised and
\* some found nothing, has returned none.
C14_Witness ==
  LET calls == EventsOf("search") IN
  /\ entry = "get_search_results" /\ pc = "searched"
  /\ num_attempts = 3 /\ Len(calls) = 3 /\ search_results.none
  /\ \E i, j \in 1..3 : calls[i].out = "raise" /\ calls[j].out = "empty"

\* C17: the sanitizer's result is never longer than max_length, an absent
\* text gives the empty string, and every call returns a string (the call
\* always completes with a sequence of characters).
C17_SanitizeBounded ==
  /\ (entry = "_sanitize_user_text" /\ pc # "call") =>
       /\ sanitized # <<>>
       /\ sanitized[1] \in Seq(SanitizerChars)
       /\ Len(sanitized[1]) <= max_length
       /\ text = None => sanitized[1] = <<>>
  /\ (entry = "run" /\ pc \notin {"start"}) => Len(cleaned_topic) <= TopicMaxLength

\* C17 witness: a text of three characters that the cleaning leaves whole was
\* cut to a max_length of two.
C17_Witness ==
  /\ entry = "_sanitize_user_text" /\ pc = "again"
  /\ Len(text) = 3 /\ Strip(CollapseWhitespace(RemoveControl(text))) = text
  /\ max_length = 2 /\ Len(sanitized[1]) = 2

\* C13: the planner's model is called only for a raw topic longer than 120
\* characters, or holding a newline, or holding more than one period; for any
\* other raw topic _build_search_query makes no model call and returns
\* cleaned_topic unchanged. There is at most one planner call per run.
C13_PlannerOnlyForLongOrMultiSentence ==
  entry \in {"run", "_build_search_query"} =>
    LET raw_topic == OrEmpty(topic)
        short == /\ Len(raw_topic) <= 120
                 /\ \A i \in 1..Len(raw_topic) : raw_topic[i] # NL
                 /\ Cardinality({i \in 1..Len(raw_topic) : raw_topic[i] = DOT}) <= 1
    IN  /\ Len(EventsOf("planner")) <= 1
        /\ short => EventsOf("planner") = <<>>
        /\ (short /\ pc \notin {"start", "plan"}) => search_query = cleaned_topic

\* C13 witness: with a planner configured, a raw topic of exactly 120 letters
\* went through _build_search_query without a model call and came back as the
\* cleaned topic.
C13_Witness ==
  /\ entry = "_build_search_query" /\ pc = "returned"
  /\ query_planner = "agent" /\ Len(topic) = 120
  /\ events = <<>> /\ search_query = cleaned_topic /\ Len(search_query) = 120

\* A raw topic of 121 letters is sent to the planner.
C13_WitnessLong ==
  /\ entry = "_build_search_query" /\ pc = "returned"
  /\ Len(topic) = 121 /\ Len(EventsOf("planner")) = 1

\* C19: get_search_results sleeps only between attempts and only after a
\* failed one: every sleep directly follows an attempt that did not find
\* anything and is not the last attempt, so there are at most
\* num_attempts - 1 sleeps, and nothing happens between the last failed
\* attempt and the return of none.
C19_SleepsOnlyBetweenAttempts ==
  entry \in {"run", "get_search_results"} =>
    /\ \A i \in 1..Len(events) :
         events[i].op = "sleep" =>
           /\ i > 1 /\ events[i - 1].op = "search" /\ events[i - 1].out # "found"
           /\ events[i - 1].arg < num_attempts
    /\ num_attempts > 0 => Len(EventsOf("sleep")) <= num_attempts - 1
    /\ (pc = "searched" /\ search_results.none /\ events # <<>>) => LastEvent.op = "search"

\* The items of the feed whose title and link are present once trimmed.
PresentItems ==
  SelectSeq(feed.items, LAMBDA it : /\ Truthy(it.title) /\ Strip(Unescape(it.title)) # <<>>
                                    /\ Truthy(it.link) /\ Strip(it.link) # <<>>)

\* The positions, among the present items, of the first occurrence of each url.
PresentFirsts ==
  SelectSeq([i \in 1..Len(PresentItems) |-> i],
            LAMBDA i : \A j \in 1..(i - 1) : Strip(PresentItems[j].link) # Strip(PresentItems[i].link))

\* C20: every result the search provider returns has a title and a url that
\* are not empty after the provider's trimming, the list has at most
\* max_results items, and it is the first max_results accepted items in feed
\* order, on the structured path and on the fallback path, whitespace-only
\* titles and links included.
C20_TitleAndUrlPresent ==
  (entry = "_search_google_news_rss" /\ pc = "returned" /\ provider_ret.returned) =>
    /\ \A k \in 1..Len(provider_ret.articles) :
         provider_ret.articles[k].title # <<>> /\ provider_ret.articles[k].url # <<>>
    /\ Len(provider_ret.articles) <= max_results
    /\ Len(provider_ret.articles) = Min(Len(PresentFirsts), max_results)
    /\ \A k \in 1..Min(Len(PresentFirsts), Len(provider_ret.articles)) :
         provider_ret.articles[k].url = Strip(PresentItems[PresentFirsts[k]].link)

\* C18: the scraped-article map is first-write-wins. During scrape_articles an
\* entry of the map is never replaced or removed by a later step, a search
\* result whose url is a key of the map is passed over without a scraper call,
\* and the scraper is called at most once for any url, duplicates in the
\* input and any url reported by the scraper included.
C18_FirstWriteWins ==
  /\ [][(entry \in {"run", "scrape_articles"}) =>
          (/\ Len(scraped_articles') >= Len(scraped_articles)
           /\ \A j \in 1..Len(scraped_articles) :
                scraped_articles'[j] = scraped_articles[j])]_vars
  /\ [][(/\ entry \in {"run", "scrape_articles"} /\ pc = "scrape"
         /\ idx <= Len(search_results.articles)
         /\ DictHas(scraped_articles, search_results.articles[idx].url))
          => events' = events]_vars
  /\ [](entry \in {"run", "scrape_articles"} =>
          \A i, j \in 1..Len(events) :
            (i < j /\ events[i].op = "scraper" /\ events[j].op = "scraper")
              => events[i].arg # events[j].arg)

\* The union of the sources of the responses generate_blog has taken.
AllSources ==
  UNION {Range(responses[i].sources.items) : i \in 1..Len(responses)}

C21_PlaceholdersAllOrNothing ==
  (entry = "run" /\ writer_request.called) =>
    LET stored == SelectSeq(events, LAMBDA ev : ev.op = "scraper" /\ ev.out = "article")
        results == search_results.articles
    IN  /\ scraped_articles # <<>> =>
             /\ writer_request.articles =
                  [i \in 1..Len(scraped_articles) |-> scraped_articles[i].val]
             /\ Len(writer_request.articles) <= Len(stored)
        /\ scraped_articles = <<>> =>
             /\ stored = <<>>
             /\ writer_request.articles =
                  [i \in 1..Len(results) |->
                     [title |-> results[i].title, url |-> results[i].url,
                      summary |-> results[i].summary, content |-> None]]

\* C21 witness: of two search results one was scraped and stored and the other
\* was skipped as a failure; the writer was invoked with the one stored entry.
C21_Witness ==
  /\ entry = "run" /\ writer_request.called
  /\ Len(search_results.articles) = 2
  /\ Len(scraped_articles) = 1
  /\ \E i, j \in 1..Len(events) :
       /\ events[i].op = "scraper" /\ events[i].out = "article"
       /\ events[j].op = "scraper" /\ events[j].out = "failure"
  /\ Len(writer_request.articles) = 1

\* With no query planner configured, planning is skipped: no planner call is
\* made and the search query is the sanitized topic.
PlanningSkippedWithoutPlanner ==
  (entry \in {"run", "_build_search_query"} /\ query_planner = "none") =>
    /\ EventsOf("planner") = <<>>
    /\ pc \notin {"start", "plan"} => search_query = cleaned_topic

\* C22: the query planner is optional. Constructing the pipeline from the
\* bundle of searcher, article-scraper and writer agents, as app.py does,
\* raises nothing, in a direct construction and inside generate_blog; and
\* with no planner configured every run skips planning and searches for the
\* sanitized topic, whatever the raw topic.
C22_PlannerOptional ==
  /\ (entry = "__init__" /\ blog_agents = BlogAgentsBundle /\ pc # "call")
       => pc = "constructed" /\ query_planner = "none"
  /\ (entry = "generate_blog" /\ blog_agents = BlogAgentsBundle)
       => pc # "raised_constructing"
  /\ PlanningSkippedWithoutPlanner

====
